---- MODULE Spec2Model ----
(***************************************************************************)
(* Model of src/app.py: the Flask /webhook handler that turns BUY / SELL / *)
(* CLOSE alerts into Alpaca orders, with the process-wide last_signal map. *)
(*                                                                         *)
(* The handler is modelled step by step: every brokerage call and every    *)
(* access to last_signal is one action of a request thread, so that the    *)
(* interleavings of a threaded server (app.run) are behaviours of Spec.    *)
(* SeqSpec is the same program serving one request at a time.              *)
(*                                                                         *)
(* The brokerage is outside the repository.  It is modelled as the code    *)
(* uses it: get_position reports a magnitude qty and a side and raises     *)
(* when there is no position; market orders fill at once; close_position   *)
(* liquidates the whole position; any call may fail.  Quantities are kept  *)
(* in units of 1/QtyScale share so that the fractional fills of notional   *)
(* orders exist; short positions are whole shares (app.py line 68).        *)
(***************************************************************************)
EXTENDS Integers, Sequences, FiniteSets, TLC

\* ------------------------------------------------------------------ bounds
QtyScale == 2
PosBound == 3

Procs == {"t1", "t2"}
MainProc == "t1"
Symbols == {"TSLA", "GOLD"}
\* latest trade / fill prices, in cents
Prices == {3750, 10000, 20000}
\* brokerage positions the account may hold when the process starts
InitPositions == {-QtyScale, 0, QtyScale}

\* --------------------------------------------------------------- constants
TRADE_NOTIONAL_USD == 100
Absent == "<absent>"
Secrets == {"", "s3cret"}

\* request bodies: raw field values as sent (a missing key is Absent)
RawAlerts == {"buy", "SELL", "close", "FLAT", Absent}
RawSymbols == {"tsla", "GOLD", Absent}
RawSecrets == {"s3cret", Absent}

\* str(...).upper() on the strings the model sends
Upper(s) ==
  CASE s = "buy" -> "BUY"
    [] s = "sell" -> "SELL"
    [] s = "close" -> "CLOSE"
    [] s = "flat" -> "FLAT"
    [] s = "tsla" -> "TSLA"
    [] OTHER -> s

\* data.get(key, default)
DataGet(v, default) == IF v = Absent THEN default ELSE v

ParseAction(body) == Upper(DataGet(body.alert, ""))
ParseSymbol(body) == Upper(DataGet(body.symbol, "TSLA"))

Abs(n) == IF n < 0 THEN -n ELSE n

\* one last signal for the whole process instead of one per symbol
LastSignalGet_Shared(m, symbol) == IF m["TSLA"] = Absent THEN "FLAT" ELSE m["TSLA"]

\* last_signal.get(symbol, "FLAT")
LastSignalGet(m, symbol) == IF m[symbol] = Absent THEN "FLAT" ELSE m[symbol]

\* get_pos_qty: int(float(p.qty)) truncates the reported magnitude; a failed
\* or empty lookup gives 0
GetPosQty(units, ok) ==
  IF ~ok \/ units = 0 THEN 0
  ELSE LET q == Abs(units) \div QtyScale
       IN  IF units > 0 THEN q ELSE -q

\* shares bought by a notional order at price px (cents), in units
NotionalFill(px) == (TRADE_NOTIONAL_USD * 100 * QtyScale) \div px

\* lines 73-76 without the max(1, est) of line 76
SizeQty_NoMinimum(cap, px) ==
  IF ~px.none /\ px.price > 0
  THEN (cap * 100) \div px.price
  ELSE 1

\* lines 72-76: qty = 1; if px and px > 0: qty = max(1, int(cap // px)), for
\* a cap in dollars and a price in cents
SizeQty(cap, px) ==
  IF ~px.none /\ px.price > 0
  THEN LET est == (cap * 100) \div px.price
       IN  IF est > 1 THEN est ELSE 1
  ELSE 1

\* place_qty_sell: whole-share quantity sized to the cap
SellQty(px) == SizeQty(TRADE_NOTIONAL_USD, px)

\* place_notional_buy with the time in force of place_qty_sell
BuyOrder_Gtc(symbol) ==
  [symbol |-> symbol, side |-> "buy", type |-> "market",
   time_in_force |-> "gtc", keys |-> {"notional"},
   notional |-> TRADE_NOTIONAL_USD, qty |-> 0]

\* lines 57-63: the keyword arguments of place_notional_buy's submit_order;
\* keys = the sizing arguments passed
BuyOrder(symbol) ==
  [symbol |-> symbol, side |-> "buy", type |-> "market",
   time_in_force |-> "day", keys |-> {"notional"},
   notional |-> TRADE_NOTIONAL_USD, qty |-> 0]

\* lines 77-83: the keyword arguments of place_qty_sell's submit_order
SellOrder(symbol, qty) ==
  [symbol |-> symbol, side |-> "sell", type |-> "market",
   time_in_force |-> "gtc", keys |-> {"qty"},
   notional |-> 0, qty |-> qty]

\* the secret compared even when none is configured
Authorized_NoSkip(configured, given) == given = configured

\* line 97: the request passes when no secret is configured or the body's
\* secret equals it
Authorized(configured, given) == configured = "" \/ given = configured

\* the asset looked up but its tradable flag ignored
Tradable_Ignored(res) == res # "unknown"

\* line 111: asset.tradable of the asset get_asset returned
Tradable(res) == res = "tradable"

\* the brokerage does not hold fractional short positions
Holdable(units) == units >= 0 \/ units % QtyScale = 0

\* submit_order: the order fails when the call fails or when it exceeds the
\* account's buying power (PosBound units a symbol), and is refused when the
\* position it would leave cannot be held
OrderResult(ok, filled) ==
  IF ~ok \/ Abs(filled) > PosBound THEN "fail"
  ELSE IF ~Holdable(filled) THEN "refused"
  ELSE "ok"

\* ------------------------------------------------------------------- state
VARIABLES
  ALLOW_SHORTS,    \* config flag (line 13), fixed for the life of the process
  WEBHOOK_SECRET,  \* config secret (line 12), "" when not configured
  last_signal,     \* the module-level dict (line 22); Absent = no entry
  position,        \* brokerage: signed holding per symbol, in units
  th               \* request threads: position in webhook() and its locals

vars == <<ALLOW_SHORTS, WEBHOOK_SECRET, last_signal, position, th>>

NoPrice == [none |-> TRUE, price |-> 0]

\* a thread that serves no request
Idle ==
  [pc |-> "idle", action |-> Absent, symbol |-> Absent, prev |-> Absent, pos |-> 0,
   px |-> NoPrice, code |-> 0, body |-> Absent, next |-> Absent,
   calls |-> <<>>, orders |-> <<>>, wrote |-> FALSE, secret |-> Absent, qty |-> 0,
   mem0 |-> Absent, pos0 |-> 0, before |-> Absent, step |-> 0, conc |-> {}]

InFlight(t) == t.pc \notin {"idle", "done"}

\* the brokerage calls a request made, in order, each with its result:
\*   "ok"       the call returned normally
\*   "fail"     the call raised for a reason outside the engine (network,
\*              brokerage error, unknown asset, insufficient buying power)
\*   "refused"  the order was refused because it sells more than is held and
\*              would leave a fraction of a share short
\*   "untradable"  get_asset returned an asset that is not tradable
Log(t, op, res) == Append(t.calls, [op |-> op, res |-> res])

OkOrFail(ok) == IF ok THEN "ok" ELSE "fail"

Called(t, op) == \E i \in 1..Len(t.calls) : t.calls[i].op = op

Failed(t, op) == \E i \in 1..Len(t.calls) : t.calls[i].op = op /\ t.calls[i].res # "ok"

\* every brokerage call the request made returned normally
AllOk(t) == \A i \in 1..Len(t.calls) : t.calls[i].res = "ok"

\* the brokerage was available and funded during the request
NoFault(t) == \A i \in 1..Len(t.calls) : t.calls[i].res # "fail"

\* return jsonify(...), code
Respond(t, body, code, next) ==
  [t EXCEPT !.pc = "done", !.body = body, !.code = code, !.next = next]

\* the thread returns its response
Finish(p, t) == th' = [th EXCEPT ![p] = t]

\* the alert sequence of the reversal scenario of the specification
Scenario == <<"BUY", "BUY", "SELL", "SELL">>

\* how far the calls this thread served in a row follow Scenario on a symbol
\* that started with no memory entry and no position (0: they do not)
ScenarioStep(t, symbol, action, mem, units) ==
  LET k == IF t.pc = "done" /\ t.symbol = symbol /\ NoFault(t) /\ t.code # 400
           THEN t.step ELSE 0
  IN  IF k > 0 /\ k < Len(Scenario) /\ action = Scenario[k + 1] THEN k + 1
      ELSE IF action = Scenario[1] /\ mem = Absent /\ units = 0 THEN 1
      ELSE 0

\* the response body of the call this thread served just before, when that
\* call was for the same symbol and the same action
Before(t, symbol, action) ==
  IF t.pc = "done" /\ t.symbol = symbol /\ t.action = action
  THEN t.body
  ELSE Absent

Init ==
  /\ ALLOW_SHORTS \in BOOLEAN
  /\ WEBHOOK_SECRET \in Secrets
  /\ last_signal = [s \in Symbols |-> Absent]
  /\ position \in [Symbols -> InitPositions]
  /\ th = [p \in Procs |-> Idle]

\* ----------------------------------------------------------------- webhook
\* lines 94-106: parse the body, check the shared secret, read the inputs
Begin(p, data) ==
  /\ ~InFlight(th[p])
  /\ UNCHANGED <<ALLOW_SHORTS, WEBHOOK_SECRET, last_signal, position>>
  /\ IF ~Authorized(WEBHOOK_SECRET, data.secret)
     THEN th' = [q \in Procs |->
                  IF q = p
                  THEN Respond([Idle EXCEPT !.secret = data.secret],
                               "unauthorized", 403, Absent)
                  ELSE [th[q] EXCEPT !.conc = @ \ {p}]]
     ELSE LET symbol == ParseSymbol(data)
              t == [Idle EXCEPT !.pc = "get_asset",
                                !.action = ParseAction(data),
                                !.symbol = symbol,
                                !.secret = data.secret,
                                !.mem0 = last_signal[symbol],
                                !.pos0 = position[symbol],
                                !.before = Before(th[p], symbol, ParseAction(data)),
                                !.step = ScenarioStep(th[p], symbol, ParseAction(data),
                                                      last_signal[symbol], position[symbol]),
                                !.conc = {q \in Procs \ {p} : InFlight(th[q])}]
          IN  th' = [q \in Procs |->
                      IF q = p THEN t ELSE [th[q] EXCEPT !.conc = @ \ {p}]]

\* lines 109-114: the asset must exist and be tradable
GetAsset(p, res) ==
  /\ th[p].pc = "get_asset"
  /\ UNCHANGED <<ALLOW_SHORTS, WEBHOOK_SECRET, last_signal, position>>
  /\ LET r == CASE res = "unknown" -> "fail"
                  [] res = "not_tradable" -> "untradable"
                  [] OTHER -> "ok"
         t == [th[p] EXCEPT !.calls = Log(th[p], "get_asset", r),
                            !.secret = Absent]
     IN  CASE res = "unknown" ->
                Finish(p, Respond(t, "unknown asset", 400, Absent))
           [] res # "unknown" /\ ~Tradable(res) ->
                Finish(p, Respond(t, "not tradable", 400, Absent))
           [] OTHER ->
                th' = [th EXCEPT ![p] = [t EXCEPT !.pc = "read_prev"]]

\* line 116: prev = last_signal.get(symbol, "FLAT")
ReadPrev(p) ==
  /\ th[p].pc = "read_prev"
  /\ th' = [th EXCEPT ![p] =
             [th[p] EXCEPT !.pc = "read_pos",
                           !.prev = LastSignalGet(last_signal, th[p].symbol)]]
  /\ UNCHANGED <<ALLOW_SHORTS, WEBHOOK_SECRET, last_signal, position>>

\* line 117: pos = get_pos_qty(symbol); ok = the lookup itself did not fail
ReadPos(p, ok) ==
  /\ th[p].pc = "read_pos"
  /\ th' = [th EXCEPT ![p] =
             [th[p] EXCEPT !.pc = "decide",
                           !.pos = GetPosQty(position[th[p].symbol], ok),
                           !.calls = Log(th[p], "get_position", OkOrFail(ok))]]
  /\ UNCHANGED <<ALLOW_SHORTS, WEBHOOK_SECRET, last_signal, position>>

\* Dispatch without the duplicate check of lines 128-130
Dispatch_NoDuplicateCheck(action, prev, pos, allow) ==
  CASE action = "CLOSE" -> "close"
    [] action = "BUY" /\ pos < 0 -> "flatten"
    [] action = "BUY" /\ pos >= 0 -> "open_long"
    [] action = "SELL" /\ ~allow -> "shorts_disabled"
    [] action = "SELL" /\ allow /\ pos > 0 -> "flatten"
    [] action = "SELL" /\ allow /\ pos <= 0 -> "open_short"
    [] OTHER -> "unknown"

\* Dispatch with the ALLOW_SHORTS test of line 148 moved below the flatten of
\* line 153
Dispatch_ShortsCheckedLate(action, prev, pos, allow) ==
  CASE action = "CLOSE" -> "close"
    [] action # "CLOSE" /\ action = prev -> "noop"
    [] action # prev /\ action = "BUY" /\ pos < 0 -> "flatten"
    [] action # prev /\ action = "BUY" /\ pos >= 0 -> "open_long"
    [] action # prev /\ action = "SELL" /\ pos > 0 -> "flatten"
    [] action # prev /\ action = "SELL" /\ pos <= 0 /\ ~allow -> "shorts_disabled"
    [] action # prev /\ action = "SELL" /\ pos <= 0 /\ allow -> "open_short"
    [] OTHER -> "unknown"

\* lines 120-164: the branch the handler takes
Dispatch(action, prev, pos, allow) ==
  CASE action = "CLOSE" -> "close"
    [] action # "CLOSE" /\ action = prev -> "noop"
    [] action # prev /\ action = "BUY" /\ pos < 0 -> "flatten"
    [] action # prev /\ action = "BUY" /\ pos >= 0 -> "open_long"
    [] action # prev /\ action = "SELL" /\ ~allow -> "shorts_disabled"
    [] action # prev /\ action = "SELL" /\ allow /\ pos > 0 -> "flatten"
    [] action # prev /\ action = "SELL" /\ allow /\ pos <= 0 -> "open_short"
    [] OTHER -> "unknown"

\* close_all without its try/except: the failure reaches line 166
AfterClose_Raises(ok) == IF ok THEN "set_flat" ELSE "order_error"

\* where close_all leaves the handler: its except clause swallows the failure
AfterClose(ok) == "set_flat"

\* submit_order wrapped in a try/except like close_position's
AfterOrder_Swallowed(ok) == "set_opened"

\* where submit_order leaves the handler: a failure propagates to line 166
AfterOrder(ok) == IF ok THEN "set_opened" ELSE "order_error"

\* the flatten branches recording the alert instead of FLAT
FlatSignal_KeepsAction(action) == IF action = "CLOSE" THEN "FLAT" ELSE action

\* the value written to last_signal after close_all (lines 124, 138, 156)
FlatSignal(action) == "FLAT"

\* the opened branches recording FLAT instead of the direction
OpenedSignal_Flat(action) == "FLAT"

\* the value written to last_signal after an order (lines 143, 161)
OpenedSignal(action) == action

\* lines 120-164 up to the first brokerage call
Decide(p) ==
  /\ th[p].pc = "decide"
  /\ UNCHANGED <<ALLOW_SHORTS, WEBHOOK_SECRET, last_signal, position>>
  /\ LET t == th[p]
         b == Dispatch(t.action, t.prev, t.pos, ALLOW_SHORTS)
     IN  CASE b \in {"close", "flatten"} ->
                th' = [th EXCEPT ![p] = [t EXCEPT !.pc = "close_all"]]
           [] b = "open_long" ->
                th' = [th EXCEPT ![p] = [t EXCEPT !.pc = "submit_buy"]]
           [] b = "open_short" ->
                th' = [th EXCEPT ![p] = [t EXCEPT !.pc = "latest_price"]]
           [] b = "noop" ->
                Finish(p, Respond(t, "noop_same_signal", 200, Absent))
           [] b = "shorts_disabled" ->
                Finish(p, Respond(t, "shorts_disabled", 200, Absent))
           [] OTHER ->
                Finish(p, Respond(t, "unknown action", 400, Absent))

\* close_all, lines 36-39: re-read the position, return when it reads flat
CloseAll(p, ok) ==
  /\ th[p].pc = "close_all"
  /\ LET t == th[p]
         q == GetPosQty(position[t.symbol], ok)
     IN  th' = [th EXCEPT ![p] =
                 [t EXCEPT !.pc = IF q = 0 THEN "set_flat" ELSE "close_position",
                           !.calls = Log(t, "get_position", OkOrFail(ok))]]
  /\ UNCHANGED <<ALLOW_SHORTS, WEBHOOK_SECRET, last_signal, position>>

\* close_all, lines 40-44: api.close_position liquidates the whole position;
\* it raises when the call fails or when nothing is left to close
ClosePosition(p, ok) ==
  /\ th[p].pc = "close_position"
  /\ LET t == th[p]
         done == ok /\ position[t.symbol] # 0
     IN  /\ position' = IF done THEN [position EXCEPT ![t.symbol] = 0] ELSE position
         /\ th' = [th EXCEPT ![p] =
                    [t EXCEPT !.pc = AfterClose(done),
                              !.calls = Log(t, "close_position", OkOrFail(done))]]
  /\ UNCHANGED <<ALLOW_SHORTS, WEBHOOK_SECRET, last_signal>>

\* lines 124-125, 138-139, 156-157: memory becomes FLAT, closed or flattened
SetFlat(p) ==
  /\ th[p].pc = "set_flat"
  /\ LET t == [th[p] EXCEPT !.wrote = TRUE]
     IN  /\ last_signal' = [last_signal EXCEPT ![t.symbol] = FlatSignal(t.action)]
         /\ IF t.action = "CLOSE"
            THEN Finish(p, Respond(t, "closed", 200, Absent))
            ELSE Finish(p, Respond(t, "flattened_wait_reopen", 202, t.action))
  /\ UNCHANGED <<ALLOW_SHORTS, WEBHOOK_SECRET, position>>

\* place_notional_buy, lines 57-63: market buy of a dollar amount, DAY
SubmitBuy(p, ok, px) ==
  /\ th[p].pc = "submit_buy"
  /\ LET t == th[p]
         filled == position[t.symbol] + NotionalFill(px)
         res == OrderResult(ok, filled)
         accepted == res = "ok"
         order == BuyOrder(t.symbol)
     IN  /\ position' = IF accepted THEN [position EXCEPT ![t.symbol] = filled]
                        ELSE position
         /\ th' = [th EXCEPT ![p] =
                    [t EXCEPT !.pc = AfterOrder(accepted),
                              !.calls = Log(t, "submit_order", res),
                              !.orders = IF accepted THEN Append(t.orders, order)
                                         ELSE t.orders]]
  /\ UNCHANGED <<ALLOW_SHORTS, WEBHOOK_SECRET, last_signal>>

\* latest_price, lines 46-53: the last trade price, None when the call fails
LatestPrice(p, px) ==
  /\ th[p].pc = "latest_price"
  /\ th' = [th EXCEPT ![p] =
             [th[p] EXCEPT !.pc = "submit_sell",
                           !.px = px,
                           !.calls = Log(th[p], "get_latest_trade", OkOrFail(~px.none))]]
  /\ UNCHANGED <<ALLOW_SHORTS, WEBHOOK_SECRET, last_signal, position>>

\* place_qty_sell, lines 72-82: market sell of whole shares, GTC
SubmitSell(p, ok) ==
  /\ th[p].pc = "submit_sell"
  /\ LET t == th[p]
         qty == SellQty(t.px)
         filled == position[t.symbol] - qty * QtyScale
         res == OrderResult(ok, filled)
         accepted == res = "ok"
         order == SellOrder(t.symbol, qty)
     IN  /\ position' = IF accepted THEN [position EXCEPT ![t.symbol] = filled]
                        ELSE position
         /\ th' = [th EXCEPT ![p] =
                    [t EXCEPT !.pc = AfterOrder(accepted),
                              !.px = NoPrice,
                              !.qty = qty,
                              !.calls = Log(t, "submit_order", res),
                              !.orders = IF accepted THEN Append(t.orders, order)
                                         ELSE t.orders]]
  /\ UNCHANGED <<ALLOW_SHORTS, WEBHOOK_SECRET, last_signal>>

\* lines 143-144, 161-162: memory becomes the opened direction
SetOpened(p) ==
  /\ th[p].pc = "set_opened"
  /\ LET t == [th[p] EXCEPT !.wrote = TRUE]
     IN  /\ last_signal' = [last_signal EXCEPT ![t.symbol] = OpenedSignal(t.action)]
         /\ IF t.action = "BUY"
            THEN Finish(p, Respond(t, "opened_long", 200, Absent))
            ELSE Finish(p, Respond(t, "opened_short", 200, Absent))
  /\ UNCHANGED <<ALLOW_SHORTS, WEBHOOK_SECRET, position>>

\* lines 166-169: the except clause of the handler
OrderError(p) ==
  /\ th[p].pc = "order_error"
  /\ Finish(p, Respond(th[p], "error", 400, Absent))
  /\ UNCHANGED <<ALLOW_SHORTS, WEBHOOK_SECRET, last_signal, position>>

\* --------------------------------------------------------- specifications
Bodies == [secret : RawSecrets, alert : RawAlerts, symbol : RawSymbols]
AssetResults == {"tradable", "not_tradable", "unknown"}
TradeResults == [none : {FALSE}, price : Prices \cup {0}] \cup {NoPrice}

Step(p) ==
  \/ \E res \in AssetResults : GetAsset(p, res)
  \/ ReadPrev(p)
  \/ \E ok \in BOOLEAN : ReadPos(p, ok)
  \/ Decide(p)
  \/ \E ok \in BOOLEAN : CloseAll(p, ok)
  \/ \E ok \in BOOLEAN : ClosePosition(p, ok)
  \/ SetFlat(p)
  \/ \E ok \in BOOLEAN, px \in Prices : SubmitBuy(p, ok, px)
  \/ \E px \in TradeResults : LatestPrice(p, px)
  \/ \E ok \in BOOLEAN : SubmitSell(p, ok)
  \/ SetOpened(p)
  \/ OrderError(p)

\* a threaded server: requests are accepted at any time
Next == \E p \in Procs : (\E data \in Bodies : Begin(p, data)) \/ Step(p)

Spec == Init /\ [][Next]_vars

\* one request at a time
SeqNext == (\E data \in Bodies : Begin(MainProc, data)) \/ Step(MainProc)

SeqSpec == Init /\ [][SeqNext]_vars

\* a freshly started threaded server on which every thread serves one alert
\* for the default symbol; every behaviour of ConcSpec is a behaviour of Spec
ConcNext ==
  \E p \in Procs :
    \/ \E data \in Bodies :
         /\ th[p].pc = "idle"
         /\ data.symbol = Absent
         /\ Begin(p, data)
    \/ Step(p)

ConcSpec == Init /\ [][ConcNext]_vars

\* a freshly started threaded server on which every thread serves one alert,
\* each thread for a symbol of its own; every behaviour of PairSpec is a
\* behaviour of Spec
SymbolOf(p) == IF p = MainProc THEN "TSLA" ELSE "GOLD"

PairNext ==
  \E p \in Procs :
    \/ \E data \in Bodies :
         /\ th[p].pc = "idle"
         /\ ParseSymbol(data) = SymbolOf(p)
         /\ Begin(p, data)
    \/ Step(p)

PairSpec == Init /\ [][PairNext]_vars

\* ------------------------------------------------------------ properties
\* the request passed the secret and tradability checks and has returned
Handled(t) == t.pc = "done" /\ Called(t, "get_position")

\* orders of one side the brokerage accepted from the request
CountSide(t, side) == Cardinality({i \in 1..Len(t.orders) : t.orders[i].side = side})

\* the two requests were in flight at the same time
Concurrent(p, q) == q \in th[p].conc \/ p \in th[q].conc

Memory(symbol) == LastSignalGet(last_signal, symbol)

\* both requests started from, and read, the same memory and position
SamePreState(t, u) ==
  /\ t.symbol = u.symbol
  /\ t.mem0 = u.mem0 /\ t.pos0 = u.pos0
  /\ t.prev = u.prev /\ t.pos = u.pos
  /\ NoFault(t) /\ NoFault(u)

\* C1: two alerts for the same symbol that are handled concurrently never both
\* observe the same pre-update state (prev, pos) and both submit an opening
\* order, one a buy and the other a sell.
C1_NoOpposingOpens ==
  \A p, q \in Procs :
    (/\ p # q
     /\ Concurrent(p, q)
     /\ SamePreState(th[p], th[q]))
    => ~(CountSide(th[p], "buy") > 0 /\ CountSide(th[q], "sell") > 0)

\* C2: the same action sent twice in a row for a symbol yields Noop with status
\* 200 on the second call, which submits no order, whatever the first call
\* started from and however it ended.  (Stated for BUY and SELL calls that
\* reach the engine; the shorts_disabled response counts as a no-op.)
C2_DuplicateIsNoop ==
  \A p \in Procs :
    (/\ Handled(th[p])
     /\ th[p].action \in {"BUY", "SELL"}
     /\ th[p].before \notin {Absent, "not tradable", "unknown asset"})
    => (/\ th[p].body \in {"noop_same_signal", "shorts_disabled"}
        /\ th[p].code = 200
        /\ ~Called(th[p], "submit_order"))

\* C2 as amended: BUY or SELL sent again right after a call that opened the
\* position or was itself a no-op yields Noop, 200, and submits no order.
C2_DuplicateAfterOpenIsNoop ==
  \A p \in Procs :
    (/\ Handled(th[p])
     /\ th[p].action \in {"BUY", "SELL"}
     /\ th[p].before \in {"opened_long", "opened_short", "noop_same_signal"})
    => (/\ th[p].body = "noop_same_signal"
        /\ th[p].code = 200
        /\ ~Called(th[p], "submit_order"))

C2_Witness ==
  \E p \in Procs :
    /\ Handled(th[p])
    /\ th[p].action = "SELL"
    /\ th[p].before = "opened_short"
    /\ th[p].body = "noop_same_signal"

\* the BUY alert found a short position and memory other than BUY
BuyWhileShort(t) ==
  /\ Handled(t)
  /\ t.action = "BUY"
  /\ t.pos0 < 0
  /\ LastSignalGet([s \in Symbols |-> t.mem0], t.symbol) # "BUY"

Flattened(t, next) ==
  /\ t.body = "flattened_wait_reopen"
  /\ t.code = 202
  /\ t.next = next
  /\ position[t.symbol] = 0
  /\ last_signal[t.symbol] = "FLAT"
  /\ ~Called(t, "submit_order")

OpenedLong(t) ==
  /\ t.body = "opened_long"
  /\ t.code = 200
  /\ CountSide(t, "buy") = 1
  /\ Len(t.orders) = 1
  /\ last_signal[t.symbol] = "BUY"

OpenedShort(t) ==
  /\ t.body = "opened_short"
  /\ t.code = 200
  /\ CountSide(t, "sell") = 1
  /\ Len(t.orders) = 1
  /\ last_signal[t.symbol] = "SELL"

C4_UnknownActionRejected ==
  \A p \in Procs :
    (Handled(th[p]) /\ th[p].action \notin {"BUY", "SELL", "CLOSE"})
    => (/\ th[p].body = "unknown action"
        /\ th[p].code = 400
        /\ ~Called(th[p], "close_position")
        /\ ~Called(th[p], "submit_order")
        /\ last_signal[th[p].symbol] = th[p].mem0)

\* C5: when the submission of an opening order fails the call returns an error
\* response and memory keeps its pre-call value, which differs from the action,
\* so that the action can be sent again; memory is written only after a
\* submission that succeeded.
C5_OrderFailureKeepsMemory ==
  \A p \in Procs :
    /\ (th[p].pc = "done" /\ Failed(th[p], "submit_order"))
       => (/\ th[p].code \in {400, 500}
           /\ ~th[p].wrote
           /\ last_signal[th[p].symbol] = th[p].mem0
           /\ Memory(th[p].symbol) # th[p].action)
    /\ (th[p].wrote /\ th[p].body \in {"opened_long", "opened_short"})
       => (Called(th[p], "submit_order") /\ ~Failed(th[p], "submit_order"))

C5_Witness ==
  \E p \in Procs :
    /\ th[p].pc = "done"
    /\ th[p].action = "BUY"
    /\ Failed(th[p], "submit_order")
    /\ th[p].code = 400
    /\ th[p].mem0 = "SELL"

\* C6: CLOSE on a tradable symbol returns Closed with status 200, never an
\* error, and sets memory to FLAT, whatever memory and position were; when the
\* position is already flat close_position is not called.
C6_CloseAlwaysAccepted ==
  \A p \in Procs :
    (Handled(th[p]) /\ th[p].action = "CLOSE")
    => (/\ th[p].body = "closed"
        /\ th[p].code = 200
        /\ last_signal[th[p].symbol] = "FLAT"
        /\ (th[p].pos0 = 0 => ~Called(th[p], "close_position")))

C6_Witness ==
  \E p \in Procs :
    /\ Handled(th[p])
    /\ th[p].action = "CLOSE"
    /\ Failed(th[p], "close_position")
    /\ th[p].mem0 = "BUY"
    /\ th[p].body = "closed"

\* C7: when the brokerage calls succeed, the position of the symbol is exactly
\* zero after a CLOSE alert has been handled.
C7_CloseFlattens ==
  \A p \in Procs :
    (Handled(th[p]) /\ th[p].action = "CLOSE" /\ AllOk(th[p]))
    => position[th[p].symbol] = 0

\* C8: with shorting disabled a SELL alert on a tradable symbol returns
\* ShortsDisabled with status 200 in every position state and after any history;
\* it submits no order, closes nothing and leaves memory unchanged, so memory is
\* never SELL and no sell order is ever submitted.
C8_ShortsDisabled ==
  ~ALLOW_SHORTS =>
    /\ \A s \in Symbols : last_signal[s] # "SELL"
    /\ \A p \in Procs :
         /\ CountSide(th[p], "sell") = 0
         /\ (Handled(th[p]) /\ th[p].action = "SELL")
            => (/\ th[p].body = "shorts_disabled"
                /\ th[p].code = 200
                /\ ~Called(th[p], "submit_order")
                /\ ~Called(th[p], "close_position")
                /\ ~th[p].wrote
                /\ last_signal[th[p].symbol] = th[p].mem0)

C8_Witness ==
  \E p \in Procs :
    /\ ~ALLOW_SHORTS
    /\ Handled(th[p])
    /\ th[p].action = "SELL"
    /\ th[p].pos0 > 0
    /\ th[p].mem0 = "BUY"
    /\ th[p].body = "shorts_disabled"

\* C9: from empty memory and position 0, with shorting enabled and the
\* brokerage calls succeeding, the alerts BUY, BUY, SELL, SELL yield OpenedLong
\* (one buy order, memory BUY), Noop (no order), FlattenAndWait(next=SELL) with
\* status 202 (position flat, memory FLAT, no sell order) and OpenedShort (one
\* sell order, memory SELL).
C9_ReversalScenario ==
  \A p \in Procs :
    (/\ ALLOW_SHORTS
     /\ Handled(th[p])
     /\ NoFault(th[p]))
    => (/\ th[p].step = 1 => OpenedLong(th[p])
        /\ th[p].step = 2 => (/\ th[p].body = "noop_same_signal"
                              /\ th[p].code = 200
                              /\ ~Called(th[p], "submit_order"))
        /\ th[p].step = 3 => Flattened(th[p], "SELL")
        /\ th[p].step = 4 => OpenedShort(th[p]))

\* C10: two concurrent identical BUY alerts on a flat symbol whose memory is
\* FLAT never both act on the value of memory they read: at most one buy order
\* is submitted.
C10_SingleWriter ==
  \A p, q \in Procs :
    (/\ p # q
     /\ Concurrent(p, q)
     /\ SamePreState(th[p], th[q])
     /\ th[p].action = "BUY" /\ th[q].action = "BUY"
     /\ th[p].pos0 = 0
     /\ th[p].prev = "FLAT")
    => CountSide(th[p], "buy") + CountSide(th[q], "buy") <= 1

\* C11: every Signal Memory entry is BUY, SELL or FLAT (an absent entry reads
\* as FLAT); right after an OpenedLong response the symbol's memory is BUY,
\* after OpenedShort it is SELL, after Closed or FlattenAndWait it is FLAT,
\* after any sequence of alerts.
C11_SignalMemory ==
  /\ \A s \in Symbols :
       /\ last_signal[s] # Absent => last_signal[s] \in {"BUY", "SELL", "FLAT"}
       /\ Memory(s) \in {"BUY", "SELL", "FLAT"}
  /\ \A p \in Procs :
       th[p].pc = "done" =>
         /\ th[p].body = "opened_long" => last_signal[th[p].symbol] = "BUY"
         /\ th[p].body = "opened_short" => last_signal[th[p].symbol] = "SELL"
         /\ th[p].body \in {"closed", "flattened_wait_reopen"}
            => last_signal[th[p].symbol] = "FLAT"

C11_Witness ==
  \E p \in Procs :
    /\ th[p].pc = "done"
    /\ th[p].body = "opened_short"
    /\ th[p].mem0 = "FLAT"
    /\ last_signal[th[p].symbol] = "SELL"

\* the rows of the transition table of the specification, first match first;
\* mem = "=" stands for "unchanged"
TransitionRow(action, prev, pos, allow) ==
  IF action = "CLOSE"
  THEN [row |-> 1, act |-> "flatten", mem |-> "FLAT", tag |-> "closed",
        code |-> 200, next |-> Absent]
  ELSE IF action = prev
  THEN [row |-> 2, act |-> "nothing", mem |-> "=", tag |-> "noop_same_signal",
        code |-> 200, next |-> Absent]
  ELSE IF action = "BUY" /\ pos < 0
  THEN [row |-> 3, act |-> "flatten", mem |-> "FLAT",
        tag |-> "flattened_wait_reopen", code |-> 202, next |-> "BUY"]
  ELSE IF action = "BUY" /\ pos >= 0
  THEN [row |-> 4, act |-> "buy", mem |-> "BUY", tag |-> "opened_long",
        code |-> 200, next |-> Absent]
  ELSE IF action = "SELL" /\ ~allow
  THEN [row |-> 5, act |-> "nothing", mem |-> "=", tag |-> "shorts_disabled",
        code |-> 200, next |-> Absent]
  ELSE IF action = "SELL" /\ pos > 0
  THEN [row |-> 6, act |-> "flatten", mem |-> "FLAT",
        tag |-> "flattened_wait_reopen", code |-> 202, next |-> "SELL"]
  ELSE IF action = "SELL" /\ pos <= 0
  THEN [row |-> 7, act |-> "sell", mem |-> "SELL", tag |-> "opened_short",
        code |-> 200, next |-> Absent]
  ELSE [row |-> 8, act |-> "nothing", mem |-> "=", tag |-> "unknown action",
        code |-> 400, next |-> Absent]

\* the branch of the handler a row of the table stands for
RowBranch(row) ==
  CASE row = 1 -> "close"
    [] row = 2 -> "noop"
    [] row \in {3, 6} -> "flatten"
    [] row = 4 -> "open_long"
    [] row = 5 -> "shorts_disabled"
    [] row = 7 -> "open_short"
    [] OTHER -> "unknown"

\* the request entered close_all: it looked the position up a second time
EnteredCloseAll(t) ==
  Cardinality({i \in 1..Len(t.calls) : t.calls[i].op = "get_position"}) = 2

\* what the request did at the brokerage after reading the position
ActionTaken(t) ==
  CASE EnteredCloseAll(t) /\ ~Called(t, "submit_order") -> "flatten"
    [] ~EnteredCloseAll(t) /\ Len(t.orders) = 1 -> t.orders[1].side
    [] /\ ~EnteredCloseAll(t)
       /\ ~Called(t, "submit_order")
       /\ ~Called(t, "close_position") -> "nothing"
    [] OTHER -> "mixed"

\* the response and the effects of the request are those of the row
FollowsRow(t, r) ==
  /\ t.body = r.tag
  /\ t.code = r.code
  /\ t.next = r.next
  /\ ActionTaken(t) = r.act
  /\ IF r.mem = "="
     THEN ~t.wrote /\ last_signal[t.symbol] = t.mem0
     ELSE last_signal[t.symbol] = r.mem

TableActions == {"BUY", "SELL", "CLOSE", "FLAT", "HOLD", ""}

\* the branch the handler takes is the first matching row, for every input
TableBranches ==
  \A action \in TableActions, prev \in {"BUY", "SELL", "FLAT"},
     pos \in {-1, 0, 1}, allow \in BOOLEAN :
    Dispatch(action, prev, pos, allow)
      = RowBranch(TransitionRow(action, prev, pos, allow).row)

C13_PositionOracle ==
  \A p \in Procs :
    (th[p].pc = "decide" /\ th[p].calls[Len(th[p].calls)].res = "ok")
    => (/\ position[th[p].symbol] > 0 => th[p].pos > 0
        /\ position[th[p].symbol] < 0 => th[p].pos < 0
        /\ th[p].pos = 0 => position[th[p].symbol] = 0)

\* notional caps (dollars) and latest-trade results the sizing is checked on
SizerCaps == {1, 50, 100, 250}
SizerPrices == TradeResults \cup [none : {FALSE}, price : {1, 3333, 9999, 25001}]

\* qty is max(1, floor(cap / price)) for an available positive price (cents),
\* and 1 otherwise; floor(x) is the integer q with q <= x < q + 1
IsSized(qty, cap, px) ==
  IF ~px.none /\ px.price > 0 /\ cap * 100 >= px.price
  THEN qty * px.price <= cap * 100 /\ cap * 100 < (qty + 1) * px.price
  ELSE qty = 1

\* the sizing of place_qty_sell on every cap and price of the samples
SizerCases ==
  /\ \A cap \in SizerCaps, px \in SizerPrices :
       /\ IsSized(SizeQty(cap, px), cap, px)
       /\ SizeQty(cap, px) >= 1
  /\ SizeQty(100, [none |-> FALSE, price |-> 3750]) = 2

C15_CloseFailureDoesNotAbort ==
  \A p \in Procs :
    (/\ th[p].pc = "done"
     /\ \/ Failed(th[p], "close_position")
        \/ EnteredCloseAll(th[p]) /\ th[p].pos0 = 0
        \/ EnteredCloseAll(th[p]) /\ Failed(th[p], "get_position"))
    => (/\ th[p].body = IF th[p].action = "CLOSE" THEN "closed"
                        ELSE "flattened_wait_reopen"
        /\ th[p].code = IF th[p].action = "CLOSE" THEN 200 ELSE 202
        /\ th[p].wrote
        /\ last_signal[th[p].symbol] = "FLAT")

C15_Witness ==
  \E p \in Procs :
    /\ th[p].pc = "done"
    /\ th[p].action = "SELL"
    /\ th[p].pos0 > 0
    /\ Failed(th[p], "close_position")
    /\ position[th[p].symbol] > 0
    /\ th[p].body = "flattened_wait_reopen"
    /\ th[p].code = 202

\* C16: the tradability check is the first thing a request does at the
\* brokerage and precedes every read of memory and of the position; a symbol
\* that is unknown or not tradable is answered 400 with no position read, no
\* memory read, no order, no close and no memory update.
C16_TradabilityGate ==
  \A p \in Procs :
    LET t == th[p]
    IN  /\ t.calls # <<>> => t.calls[1].op = "get_asset"
        /\ (t.prev # Absent \/ t.wrote \/ Len(t.calls) > 1)
           => t.calls[1] = [op |-> "get_asset", res |-> "ok"]
        /\ (t.calls # <<>> /\ t.calls[1].res # "ok")
           => (/\ t.pc = "done"
               /\ t.code = 400
               /\ t.body \in {"not tradable", "unknown asset"}
               /\ Len(t.calls) = 1
               /\ t.prev = Absent
               /\ ~t.wrote
               /\ last_signal[t.symbol] = t.mem0)

C16_Witness ==
  \E p \in Procs :
    /\ th[p].pc = "done"
    /\ th[p].calls = <<[op |-> "get_asset", res |-> "untradable"]>>
    /\ th[p].body = "not tradable"
    /\ th[p].code = 400
    /\ th[p].mem0 = "BUY"
    /\ position[th[p].symbol] # 0

\* C17: with a non-empty configured secret a body whose secret does not match
\* is answered 403 before anything else runs: no brokerage call, no memory read
\* or update; with an empty configured secret no body is answered 403.
C17_AuthGate ==
  \A p \in Procs :
    LET t == th[p]
        mismatch == WEBHOOK_SECRET # "" /\ t.secret # WEBHOOK_SECRET
    IN  /\ t.pc = "get_asset" => ~mismatch
        /\ (t.pc = "done" /\ t.calls = <<>>) <=> t.body = "unauthorized"
        /\ t.body = "unauthorized"
           => (/\ mismatch
               /\ t.code = 403
               /\ t.prev = Absent
               /\ ~t.wrote
               /\ t.orders = <<>>)
        /\ WEBHOOK_SECRET = "" => t.code # 403

C17_Witness ==
  \E p \in Procs :
    /\ th[p].body = "unauthorized"
    /\ th[p].code = 403
    /\ th[p].secret = Absent
    /\ \E s \in Symbols : last_signal[s] = "BUY" /\ position[s] > 0

\* C18: every order submitted carries exactly one of a notional amount and a
\* whole-share quantity; every notional order has time in force DAY; an opening
\* long is a notional buy and an opening short is a whole-share sell.
C18_OrderSpec ==
  \A p \in Procs :
    /\ \A i \in 1..Len(th[p].orders) :
         LET o == th[p].orders[i]
         IN  /\ o.keys \subseteq {"notional", "qty"}
             /\ Cardinality(o.keys) = 1
             /\ o.type = "market"
             /\ "notional" \in o.keys
                => (o.time_in_force = "day" /\ o.notional > 0 /\ o.qty = 0)
             /\ "qty" \in o.keys => (o.qty >= 1 /\ o.notional = 0)
             /\ o.side = "buy" <=> o.keys = {"notional"}
             /\ o.side = "sell" <=> o.keys = {"qty"}
    /\ th[p].body = "opened_long"
       => (Len(th[p].orders) = 1 /\ th[p].orders[1].side = "buy")
    /\ th[p].body = "opened_short"
       => (Len(th[p].orders) = 1 /\ th[p].orders[1].side = "sell")

C18_Witness ==
  \E p \in Procs :
    /\ th[p].body = "opened_long"
    /\ th[p].orders[1].keys = {"notional"}
    /\ th[p].orders[1].time_in_force = "day"
    /\ position[th[p].symbol] > th[p].pos0

\* the thread took a step of the handler
Moved(p) == th[p].pc # th'[p].pc

\* C19: a request for symbol A reads and writes only A's memory entry, reads
\* only A's position and closes or orders only A, in every interleaving of
\* requests for two symbols: the memory and the position of a symbol change
\* only in a step of a request for that symbol, and what a request reads is
\* the entry and the position of its own symbol.
C19_SymbolIndependence ==
  [][/\ \A s \in Symbols :
          (last_signal'[s] # last_signal[s] \/ position'[s] # position[s])
          => \E p \in Procs : Moved(p) /\ th[p].symbol = s
     /\ \A p \in Procs :
          /\ (th[p].pc = "read_prev" /\ Moved(p))
             => th'[p].prev = IF last_signal[th[p].symbol] = Absent THEN "FLAT"
                              ELSE last_signal[th[p].symbol]
          /\ (th[p].pc = "read_pos" /\ Moved(p))
             => th'[p].pos \in
                  {0, GetPosQty(position[th[p].symbol], TRUE)}
          /\ (InFlight(th[p]) /\ Moved(p)) => th'[p].symbol = th[p].symbol
          /\ \A i \in 1..Len(th'[p].orders) :
               th'[p].orders[i].symbol = th'[p].symbol]_vars

C19_Witness ==
  \E p, q \in Procs :
    /\ th[p].pc = "done" /\ th[q].pc = "done"
    /\ th[p].symbol = "TSLA" /\ th[q].symbol = "GOLD"
    /\ Concurrent(p, q)
    /\ th[p].body = "opened_long" /\ th[q].body = "opened_short"
    /\ th[p].mem0 = Absent /\ th[q].mem0 = Absent
    /\ last_signal["TSLA"] = "BUY" /\ last_signal["GOLD"] = "SELL"

\* C20: an opening order is submitted only from a flat position: after any
\* sequence of alerts no buy order is submitted while the symbol is already
\* long and no sell-to-open order while it is already short.
C20_OpenOnlyFromFlat ==
  \A p \in Procs :
    (th[p].pc = "done" /\ AllOk(th[p]))
    => (/\ CountSide(th[p], "buy") > 0 => th[p].pos0 <= 0
        /\ CountSide(th[p], "sell") > 0 => th[p].pos0 >= 0)

====
